---- MODULE Spec2Model ----
(***************************************************************************)
(* A model of QwtPlotCurve (src/qwt/src/qwt_plot_curve.cpp): the curve's   *)
(* stored configuration, its mutators, and what a drawSeries, a            *)
(* drawLegendIdentifier or a closestPoint call does with a painter and a   *)
(* series of samples; and of QwtColumnSymbol (src/unnamed/part_000): its   *)
(* configuration and what a draw call paints.                              *)
(*                                                                         *)
(* Data values and device coordinates are integers.  A point is a pair     *)
(* <<x, y>>.  The observation variables call, log, notified and result     *)
(* describe the LAST operation: its name and arguments, the sample reads   *)
(* and painter calls it issued (in order), whether it called itemChanged() *)
(* and what it returned.                                                   *)
(***************************************************************************)
EXTENDS Integers, Sequences, FiniteSets, TLC

VARIABLES
    style,            \* d_data->style
    reference,        \* d_data->reference (the baseline)
    symbol,           \* d_data->symbol: the address of the owned QwtSymbol
    symbolObj,        \* *d_data->symbol: the value of the owned QwtSymbol
    curveFitter,      \* d_data->curveFitter: an address, or NULL
    pen,              \* d_data->pen
    brush,            \* d_data->brush
    attributes,       \* d_data->attributes (curve attributes)
    paintAttributes,  \* d_data->paintAttributes
    legendAttributes, \* d_data->legendAttributes
    heap,             \* the state of every QwtSymbol / QwtCurveFitter address
    series,           \* *d_series: the samples
    orient,           \* QwtPlotSeriesItem::orientation()
    plot,             \* QwtPlotItem::plot(): TRUE when attached to a plot
    call,             \* the last operation and its arguments
    log,              \* sample reads and painter calls of the last operation
    notified,         \* TRUE iff the last operation called itemChanged()
    result,           \* what the last operation returned / wrote to *dist
    columnStyle,      \* QwtColumnSymbol: d_data->style
    frameStyle,       \* QwtColumnSymbol: d_data->frameStyle
    palette,          \* QwtColumnSymbol: d_data->palette
    lineWidth,        \* QwtColumnSymbol: d_data->lineWidth
    life              \* "alive"; "destroyed" once ~QwtPlotCurve has run;
                      \* "killed" once the process died inside an operation

config == <<style, reference, symbolObj, pen, brush, attributes,
            paintAttributes, legendAttributes>>
owned  == <<symbol, curveFitter, heap>>
data   == <<series, orient, plot>>
obs    == <<call, log, notified, result>>
column == <<columnStyle, frameStyle, palette, lineWidth>>
vars   == <<style, reference, symbol, symbolObj, curveFitter, pen, brush,
            attributes, paintAttributes, legendAttributes, heap, series,
            orient, plot, call, log, notified, result, columnStyle,
            frameStyle, palette, lineWidth, life>>

-----------------------------------------------------------------------------
(* Bounds of the model *)

\* the longest series setSamples installs
MaxLen == 3
\* the number of QwtSymbol / QwtCurveFitter addresses the heap can hand out
MaxObjs == 4

-----------------------------------------------------------------------------
(* Values *)

NULL == 0
Objs == 1..MaxObjs

CurveStyles == {"NoCurve", "Lines", "Sticks", "Steps", "Dots"}
CurveAttributes == {"Inverted", "Fitted"}
PaintAttributes == {"ClipPolygons"}
LegendAttributes == {"LegendShowLine", "LegendShowSymbol", "LegendShowBrush"}
Orientations == {"Horizontal", "Vertical"}

\* QPen(Qt::black), the pen PrivateData() installs
BlackPen == [style |-> "SolidLine", color |-> "black"]
RedPen   == [style |-> "SolidLine", color |-> "red"]
\* QBrush(): the default-constructed member PrivateData::brush
NoBrush    == [style |-> "NoBrush", color |-> "black"]
BlueBrush  == [style |-> "SolidPattern", color |-> "blue"]
\* a brush whose color is not valid: fillCurve paints it in the pen's color
PlainBrush == [style |-> "SolidPattern", color |-> "invalid"]
\* QwtSymbol(): the symbol PrivateData() installs
NoSymbol      == [style |-> "NoSymbol", w |-> 0, h |-> 0, color |-> "black"]
EllipseSymbol == [style |-> "Ellipse", w |-> 2, h |-> 2, color |-> "green"]

\* result.ret is the value returned; result.written tells whether *dist was
\* assigned, and then *dist is the square root of result.sq
NoResult == [ret |-> 0, written |-> FALSE, sq |-> 0]

\* QPalette(Qt::gray), the palette QwtColumnSymbol's PrivateData() installs:
\* the three tones the column drawing uses
GrayPalette == [light |-> "lightgray", dark |-> "darkgray", window |-> "gray"]
BluePalette == [light |-> "lightblue", dark |-> "darkblue", window |-> "blue"]

ColumnStyles == {"NoStyle", "Box"}
FrameStyles == {"NoFrame", "Plain", "Raised"}
BorderFlags == {"ExcludeMinimum", "ExcludeMaximum"}

\* an interval of a QwtColumnRect: its limits and its border flags
NoInterval == [min |-> 0, max |-> 0, flags |-> {}]

NoCall == [op |-> "init", from |-> 0, to |-> 0, painter |-> FALSE,
           win |-> <<0, 0, 0, 0>>, pos |-> <<0, 0>>, dist |-> FALSE,
           rect |-> <<0, 0, 0, 0>>, hInterval |-> NoInterval,
           vInterval |-> NoInterval]

-----------------------------------------------------------------------------
(* Construction: PrivateData() and QwtPlotCurve::init();                  *)
(* QwtColumnSymbol::QwtColumnSymbol(Style)                                *)

\* QwtColumnSymbol::QwtColumnSymbol(s): PrivateData() installs Box, Raised,
\* line width 2 and the gray palette, then d_data->style = s
ColumnInit(s) ==
    /\ columnStyle = s
    /\ frameStyle = "Raised"
    /\ palette = GrayPalette
    /\ lineWidth = 2

\* a newly constructed curve
CurveInit ==
    /\ style = "Lines"
    /\ reference = 0
    /\ attributes = {}
    /\ paintAttributes = {"ClipPolygons"}
    /\ legendAttributes = {}
    /\ symbol = 1
    /\ symbolObj = NoSymbol
    /\ pen = BlackPen
    /\ brush = NoBrush
    /\ curveFitter = 2
    /\ heap = [o \in Objs |-> IF o <= 2 THEN "live" ELSE "unused"]
    /\ series = <<>>
    /\ orient = "Vertical"
    /\ plot = FALSE
    /\ call = NoCall
    /\ log = <<>>
    /\ notified = FALSE
    /\ result = NoResult
    /\ life = "alive"

\* a newly constructed curve and a column symbol constructed with any style
Init == CurveInit /\ \E s \in ColumnStyles : ColumnInit(s)

\* where the specifications of the curve alone start: no action of the curve
\* reads or writes the column symbol, it is the one constructed with Box
InitCurve == CurveInit /\ ColumnInit("Box")

-----------------------------------------------------------------------------
(* The heap of owned objects *)

\* operator delete on address o: a live object is freed; deleting NULL does
\* nothing; deleting a freed object is a double free, recorded as such
Delete(h, o) ==
    IF o = NULL THEN h
    ELSE [h EXCEPT ![o] = IF @ = "live" THEN "freed" ELSE "freedTwice"]

\* operator new: the lowest address never handed out before
Fresh(h) == CHOOSE o \in Objs : h[o] = "unused" /\ \A p \in Objs : h[p] = "unused" => o <= p
CanAlloc(h) == \E o \in Objs : h[o] = "unused"

-----------------------------------------------------------------------------
(* Mutators.  Each is the whole method; Observe records the call. *)

Observe(op, changed) ==
    /\ life = "alive"
    /\ life' = life
    /\ call' = [NoCall EXCEPT !.op = op]
    /\ log' = <<>>
    /\ notified' = changed
    /\ result' = NoResult
    /\ UNCHANGED column

setPaintAttribute(attribute, on) ==
    /\ paintAttributes' = IF on THEN paintAttributes \cup {attribute}
                          ELSE paintAttributes \ {attribute}
    /\ Observe("setPaintAttribute", FALSE)
    /\ UNCHANGED <<style, reference, symbol, symbolObj, curveFitter, pen, brush,
                   attributes, legendAttributes, heap, series, orient, plot>>

setLegendAttribute(attribute, on) ==
    /\ legendAttributes' = IF on THEN legendAttributes \cup {attribute}
                           ELSE legendAttributes \ {attribute}
    /\ Observe("setLegendAttribute", FALSE)
    /\ UNCHANGED <<style, reference, symbol, symbolObj, curveFitter, pen, brush,
                   attributes, paintAttributes, heap, series, orient, plot>>

setStyle(s) ==
    /\ style' = s
    /\ Observe("setStyle", s # style)
    /\ UNCHANGED <<reference, symbol, symbolObj, curveFitter, pen, brush,
                   attributes, paintAttributes, legendAttributes, heap, series,
                   orient, plot>>

\* one entry of the log: op names the call, pts its points, n its index
\* argument, s its pen / brush argument
Ev(op, pts, n, s) == [op |-> op, pts |-> pts, n |-> n, s |-> s]

\* the use of the freed object o by the call named what
UseAfterFree(o, what) == Ev("useAfterFree", <<>>, o, what)

\* what a call whose log is l can do: return, or, if it used a freed object
\* (undefined behaviour), also die there
Outcomes(l) ==
    IF \E k \in DOMAIN l : l[k].op = "useAfterFree"
    THEN {"returns", "killed"} ELSE {"returns"}

\* the log of a call that died at its first use of a freed object
Killed(l) ==
    SubSeq(l, 1, CHOOSE k \in DOMAIN l :
                    /\ l[k].op = "useAfterFree"
                    /\ \A j \in 1..(k - 1) : l[j].op # "useAfterFree")

\* delete d_data->symbol; d_data->symbol = symbol.clone(); itemChanged();
\* The argument is a reference: own tells that it is the curve's own symbol
\* (setSymbol(symbol())), which is deleted before it is cloned.  The call
\* then dies in clone(), or clones what the freed block still holds.
setSymbol(s, own) ==
    /\ life = "alive"
    /\ own => s = symbolObj
    /\ CanAlloc(heap)
    /\ LET h1 == Delete(heap, symbol)
           a  == Fresh(h1)
           l  == IF own THEN << UseAfterFree(symbol, "clone") >> ELSE <<>>
       IN \E outcome \in Outcomes(l) :
             IF outcome = "killed"
             THEN /\ heap' = h1
                  /\ life' = "killed"
                  /\ notified' = FALSE
                  /\ log' = Killed(l)
                  /\ UNCHANGED <<symbol, symbolObj>>
             ELSE /\ heap' = [h1 EXCEPT ![a] = "live"]
                  /\ symbol' = a
                  /\ symbolObj' = s
                  /\ life' = life
                  /\ notified' = TRUE
                  /\ log' = l
    /\ call' = [NoCall EXCEPT !.op = "setSymbol"]
    /\ result' = NoResult
    /\ UNCHANGED <<style, reference, curveFitter, pen, brush, attributes,
                   paintAttributes, legendAttributes, series, orient, plot>>
    /\ UNCHANGED column

\* ~QwtPlotCurve: delete d_data, whose destructor deletes the symbol and the
\* fitter.  The delete of a fitter that is deleted already acts on freed
\* memory: the process dies in it, or it returns (the block is freed twice)
destroy ==
    /\ life = "alive"
    /\ LET h1 == Delete(heap, symbol)
           l == IF curveFitter # NULL /\ heap[curveFitter] # "live"
                THEN << UseAfterFree(curveFitter, "delete") >> ELSE <<>>
       IN \E outcome \in Outcomes(l) :
             IF outcome = "killed"
             THEN /\ heap' = h1
                  /\ life' = "killed"
                  /\ log' = Killed(l)
             ELSE /\ heap' = Delete(h1, curveFitter)
                  /\ life' = "destroyed"
                  /\ log' = l
    /\ call' = [NoCall EXCEPT !.op = "~QwtPlotCurve"]
    /\ notified' = FALSE
    /\ result' = NoResult
    /\ UNCHANGED <<config, symbol, curveFitter, data, column>>

setPen(p) ==
    /\ pen' = p
    /\ Observe("setPen", p # pen)
    /\ UNCHANGED <<style, reference, symbol, symbolObj, curveFitter, brush,
                   attributes, paintAttributes, legendAttributes, heap, series,
                   orient, plot>>

setBrush(b) ==
    /\ brush' = b
    /\ Observe("setBrush", b # brush)
    /\ UNCHANGED <<style, reference, symbol, symbolObj, curveFitter, pen,
                   attributes, paintAttributes, legendAttributes, heap, series,
                   orient, plot>>

setCurveAttribute(attribute, on) ==
    /\ attributes' = IF (attribute \in attributes) = on THEN attributes
                     ELSE IF on THEN attributes \cup {attribute}
                     ELSE attributes \ {attribute}
    /\ Observe("setCurveAttribute", (attribute \in attributes) # on)
    /\ UNCHANGED <<style, reference, symbol, symbolObj, curveFitter, pen, brush,
                   paintAttributes, legendAttributes, heap, series, orient, plot>>

\* delete d_data->curveFitter; d_data->curveFitter = curveFitter; itemChanged();
\* f is NULL, the installed fitter (curveFitter() hands it out), or the
\* address of a fitter the caller has just created
\* With a deleted fitter installed the delete acts on freed memory
\* (undefined behaviour): the call dies in it, or it returns (the block is
\* freed twice), or, when operator new has placed the caller's new fitter in
\* the freed block, it destroys that new fitter, which is then installed.
setCurveFitter(f) ==
    /\ life = "alive"
    /\ LET dangling == curveFitter # NULL /\ heap[curveFitter] # "live"
           created == f # NULL /\ heap[f] = "unused"
           h0 == [o \in Objs |-> IF o = f /\ created THEN "live" ELSE heap[o]]
           l == IF dangling THEN << UseAfterFree(curveFitter, "delete") >>
                ELSE <<>>
       IN \E outcome \in Outcomes(l)
                          \cup (IF dangling /\ created THEN {"reused"} ELSE {}) :
             IF outcome = "killed"
             THEN /\ heap' = h0
                  /\ life' = "killed"
                  /\ notified' = FALSE
                  /\ log' = Killed(l)
                  /\ UNCHANGED curveFitter
             ELSE /\ heap' = IF outcome = "reused" THEN Delete(h0, f)
                             ELSE Delete(h0, curveFitter)
                  /\ curveFitter' = f
                  /\ life' = life
                  /\ notified' = TRUE
                  /\ log' = IF outcome = "reused" THEN <<>> ELSE l
    /\ call' = [NoCall EXCEPT !.op = "setCurveFitter"]
    /\ result' = NoResult
    /\ UNCHANGED <<style, reference, symbol, symbolObj, pen, brush, attributes,
                   paintAttributes, legendAttributes, series, orient, plot>>
    /\ UNCHANGED column

setBaseline(r) ==
    /\ reference' = r
    /\ Observe("setBaseline", r # reference)
    /\ UNCHANGED <<style, symbol, symbolObj, curveFitter, pen, brush, attributes,
                   paintAttributes, legendAttributes, heap, series, orient, plot>>

\* delete d_series; d_series = new QwtPointSeriesData(data); itemChanged();
setSamples(d) ==
    /\ series' = d
    /\ Observe("setSamples", TRUE)
    /\ UNCHANGED <<style, reference, symbol, symbolObj, curveFitter, pen, brush,
                   attributes, paintAttributes, legendAttributes, heap, orient,
                   plot>>

-----------------------------------------------------------------------------
(* Collaborators of the drawing code *)

\* QwtScaleMap::transform of the x axis: data value -> device coordinate
xTransform(v) == 2 * v + 1
\* QwtScaleMap::transform of the y axis (device y grows downwards)
yTransform(v) == 6 - 2 * v

\* d_series->sample(i); an index outside the series has no sample, the
\* model then reads the origin
sample(i) == IF i + 1 \in DOMAIN series THEN series[i + 1] ELSE <<0, 0>>

dataSize == Len(series)

\* the device point of sample i: (xMap.transform(x), yMap.transform(y))
devicePoint(i) == <<xTransform(sample(i)[1]), yTransform(sample(i)[2])>>

\* the event of reading sample i
Read(i) == Ev("sample", <<>>, i, "")

\* QRect / QRectF window <<x, y, w, h>>
isEmpty(win) == win[3] <= 0 \/ win[4] <= 0
contains(win, p) ==
    /\ win[1] <= p[1] /\ p[1] <= win[1] + win[3]
    /\ win[2] <= p[2] /\ p[2] <= win[2] + win[4]

\* QwtClipper::clipPolygonF: a polygon inside the rectangle is returned as
\* it is; otherwise the geometry outside the rectangle is removed
clipPolygonF(win, polygon) ==
    IF \A k \in DOMAIN polygon : contains(win, polygon[k]) THEN polygon
    ELSE SelectSeq(polygon, LAMBDA p : contains(win, p))

\* QwtCurveFitter::fitCurve: a polyline of fewer than 3 points is returned as
\* it is, a longer one is resampled to 2n-1 points
fitCurve(polygon) ==
    IF Len(polygon) < 3 THEN polygon
    ELSE [k \in 1..(2 * Len(polygon) - 1) |-> polygon[(k + 1) \div 2]]

qwtLim(x, x1, x2) ==
    LET xmin == IF x1 < x2 THEN x1 ELSE x2
        xmax == IF x1 < x2 THEN x2 ELSE x1
    IN IF x < xmin THEN xmin ELSE IF x > xmax THEN xmax ELSE x

-----------------------------------------------------------------------------
(* The drawing code.  Each operator is the sequence of events of the method. *)

\* verifyRange without the swap of an inverted range
verifyRangeNoSwap(size, i1, i2) ==
    IF size < 1 THEN [n |-> 0, i1 |-> i1, i2 |-> i2]
    ELSE LET a == qwtLim(i1, 0, size - 1)
             b == qwtLim(i2, 0, size - 1)
         IN [n |-> IF a > b THEN a - b + 1 ELSE b - a + 1, i1 |-> a, i2 |-> b]

\* returns the count n and the range [i1, i2] its reference arguments end as
verifyRange(size, i1, i2) ==
    IF size < 1 THEN [n |-> 0, i1 |-> i1, i2 |-> i2]
    ELSE LET a == qwtLim(i1, 0, size - 1)
             b == qwtLim(i2, 0, size - 1)
             lo == IF a > b THEN b ELSE a
             hi == IF a > b THEN a ELSE b
         IN [n |-> hi - lo + 1, i1 |-> lo, i2 |-> hi]

\* closePolyline that projects onto the baseline through the other axis' map
closePolylineWrongMap(polygon) ==
    IF Len(polygon) < 2 THEN polygon
    ELSE IF orient = "Vertical"
    THEN LET refY == xTransform(reference)
         IN polygon \o <<  <<polygon[Len(polygon)][1], refY>>,
                           <<polygon[1][1], refY>>  >>
    ELSE LET refX == yTransform(reference)
         IN polygon \o <<  <<refX, polygon[Len(polygon)][2]>>,
                           <<refX, polygon[1][2]>>  >>

\* the polygon closePolyline leaves in its reference argument
closePolyline(polygon) ==
    IF Len(polygon) < 2 THEN polygon
    ELSE IF orient = "Vertical"
    THEN LET refY == yTransform(reference)
         IN polygon \o <<  <<polygon[Len(polygon)][1], refY>>,
                           <<polygon[1][1], refY>>  >>
    ELSE LET refX == xTransform(reference)
         IN polygon \o <<  <<refX, polygon[Len(polygon)][2]>>,
                           <<refX, polygon[1][2]>>  >>

\* fillCurve without the test for a polygon that is only a line
fillCurveAlways(polygon) ==
    IF brush.style = "NoBrush" THEN <<>>
    ELSE LET closed == closePolyline(polygon)
             b == IF brush.color = "invalid" THEN pen.color ELSE brush.color
         IN << Ev("save", <<>>, 0, ""),
               Ev("setPen", <<>>, 0, "NoPen"),
               Ev("setBrush", <<>>, 0, b),
               Ev("drawPolygon", closed, 0, ""),
               Ev("restore", <<>>, 0, "") >>

fillCurve(polygon) ==
    IF brush.style = "NoBrush" THEN <<>>
    ELSE LET closed == closePolyline(polygon)
             b == IF brush.color = "invalid" THEN pen.color ELSE brush.color
         IN IF Len(closed) <= 2 THEN <<>>
            ELSE << Ev("save", <<>>, 0, ""),
                    Ev("setPen", <<>>, 0, "NoPen"),
                    Ev("setBrush", <<>>, 0, b),
                    Ev("drawPolygon", closed, 0, ""),
                    Ev("restore", <<>>, 0, "") >>

\* the reads of the samples from..to, in order
Reads(from, to) ==
    IF to < from THEN <<>>
    ELSE [k \in 1..(to - from + 1) |-> Read(from + k - 1)]

drawLines(win, from, to) ==
    LET size == to - from + 1 IN
    IF size <= 0 THEN <<>>
    ELSE LET polyline == [k \in 1..size |-> devicePoint(from + k - 1)]
             fitted == IF "Fitted" \in attributes /\ curveFitter # NULL
                       THEN fitCurve(polyline) ELSE polyline
             clipped == IF "ClipPolygons" \in paintAttributes
                        THEN clipPolygonF(win, fitted) ELSE fitted
         IN Reads(from, to)
            \o (IF "Fitted" \in attributes /\ curveFitter # NULL
                   /\ heap[curveFitter] # "live"
                THEN << UseAfterFree(curveFitter, "fitCurve") >> ELSE <<>>)
            \o << Ev("drawPolyline", clipped, 0, "") >>
            \o (IF brush.style # "NoBrush" THEN fillCurve(clipped) ELSE <<>>)

drawSticks(from, to) ==
    LET x0 == xTransform(reference)
        y0 == yTransform(reference)
        n == IF to < from THEN 0 ELSE to - from + 1
    IN [k \in 1..(2 * n) |->
          LET i == from + (k - 1) \div 2
              p == devicePoint(i)
          IN IF k % 2 = 1 THEN Read(i)
             ELSE IF orient = "Horizontal"
                  THEN Ev("drawLine", << <<x0, p[2]>>, p >>, 0, "")
                  ELSE Ev("drawLine", << <<p[1], y0>>, p >>, 0, "")]

drawDots(win, from, to) ==
    IF isEmpty(win) THEN <<>>
    ELSE LET doFill == brush.style # "NoBrush"
             n == IF to < from THEN 0 ELSE to - from + 1
             polyline == [k \in 1..n |-> devicePoint(from + k - 1)]
             clipped == IF "ClipPolygons" \in paintAttributes
                        THEN clipPolygonF(win, polyline) ELSE polyline
         IN [k \in 1..(2 * n) |->
               LET i == from + (k - 1) \div 2
               IN IF k % 2 = 1 THEN Read(i)
                  ELSE Ev("drawPoint", <<devicePoint(i)>>, 0, "")]
            \o (IF doFill THEN fillCurve(clipped) ELSE <<>>)

\* the staircase allocated one vertex short: QPolygonF polygon(2 * (to - from))
stepsPolygonShort(from, to) ==
    LET inverted == (orient = "Vertical") # ("Inverted" \in attributes)
        n == IF 2 * (to - from) < 0 THEN 0 ELSE 2 * (to - from)
    IN [ip \in 1..n |->
          IF ip % 2 = 1 THEN devicePoint(from + (ip - 1) \div 2)
          ELSE LET p0 == devicePoint(from + ip \div 2 - 1)
                   pi == devicePoint(from + ip \div 2)
               IN IF inverted THEN <<p0[1], pi[2]>> ELSE <<pi[1], p0[2]>>]

\* the staircase that ignores the Inverted attribute
stepsPolygonNotInverted(from, to) ==
    LET inverted == (orient = "Vertical")
        n == IF 2 * (to - from) + 1 < 0 THEN 0 ELSE 2 * (to - from) + 1
    IN [ip \in 1..n |->
          IF ip % 2 = 1 THEN devicePoint(from + (ip - 1) \div 2)
          ELSE LET p0 == devicePoint(from + ip \div 2 - 1)
                   pi == devicePoint(from + ip \div 2)
               IN IF inverted THEN <<p0[1], pi[2]>> ELSE <<pi[1], p0[2]>>]

\* the staircase drawSteps builds in polygon before it clips it
stepsPolygon(from, to) ==
    LET inverted == (orient = "Vertical") # ("Inverted" \in attributes)
        n == IF 2 * (to - from) + 1 < 0 THEN 0 ELSE 2 * (to - from) + 1
    IN [ip \in 1..n |->
          IF ip % 2 = 1 THEN devicePoint(from + (ip - 1) \div 2)
          ELSE LET p0 == devicePoint(from + ip \div 2 - 1)
                   pi == devicePoint(from + ip \div 2)
               IN IF inverted THEN <<p0[1], pi[2]>> ELSE <<pi[1], p0[2]>>]

drawSteps(win, from, to) ==
    LET polygon == stepsPolygon(from, to)
        clipped == IF "ClipPolygons" \in paintAttributes
                   THEN clipPolygonF(win, polygon) ELSE polygon
    IN Reads(from, to)
       \o << Ev("drawPolyline", clipped, 0, "") >>
       \o (IF brush.style # "NoBrush" THEN fillCurve(clipped) ELSE <<>>)

\* drawCurve that fits the requested range only
drawCurveRequestedRange(win, st, from, to) ==
    CASE st = "Lines" -> drawLines(win, from, to)
      [] st = "Sticks" -> drawSticks(from, to)
      [] st = "Steps" -> drawSteps(win, from, to)
      [] st = "Dots" -> drawDots(win, from, to)
      [] OTHER -> <<>>

drawCurve(win, st, from, to) ==
    CASE st = "Lines" ->
           IF "Fitted" \in attributes
           THEN drawLines(win, 0, dataSize - 1)
           ELSE drawLines(win, from, to)
      [] st = "Sticks" -> drawSticks(from, to)
      [] st = "Steps" -> drawSteps(win, from, to)
      [] st = "Dots" -> drawDots(win, from, to)
      [] OTHER -> <<>>

\* drawSymbols whose loop stops one sample early (i < to)
drawSymbolsShort(sym, from, to) ==
    LET n == IF to <= from THEN 0 ELSE to - from
    IN << Ev("setBrush", <<>>, 0, sym.color), Ev("setPen", <<>>, 0, sym.color) >>
       \o [k \in 1..(2 * n) |->
             LET i == from + (k - 1) \div 2
             IN IF k % 2 = 1 THEN Read(i)
                ELSE Ev("symbol", << devicePoint(i), <<sym.w, sym.h>> >>, 0,
                        sym.style)]

drawSymbols(sym, from, to) ==
    LET n == IF to < from THEN 0 ELSE to - from + 1
    IN << Ev("setBrush", <<>>, 0, sym.color), Ev("setPen", <<>>, 0, sym.color) >>
       \o [k \in 1..(2 * n) |->
             LET i == from + (k - 1) \div 2
             IN IF k % 2 = 1 THEN Read(i)
                ELSE Ev("symbol", << devicePoint(i), <<sym.w, sym.h>> >>, 0,
                        sym.style)]

\* the range drawSeries resolves from its arguments
resolveRange(from, to) ==
    verifyRange(dataSize, from, IF to < 0 THEN dataSize - 1 ELSE to)

drawSeries(painter, win, from, to) ==
    IF ~painter \/ dataSize <= 0 THEN <<>>
    ELSE LET r == resolveRange(from, to)
         IN IF r.n > 0
            THEN << Ev("save", <<>>, 0, ""), Ev("setPen", <<>>, 0, pen.color) >>
                 \o drawCurve(win, style, r.i1, r.i2)
                 \o << Ev("restore", <<>>, 0, "") >>
                 \o (IF symbolObj.style # "NoSymbol"
                     THEN << Ev("save", <<>>, 0, "") >>
                          \o drawSymbols(symbolObj, r.i1, r.i2)
                          \o << Ev("restore", <<>>, 0, "") >>
                     ELSE <<>>)
            ELSE <<>>

\* a drawSeries call: a const method, it changes the painter only.  With a
\* deleted fitter installed, drawLines calls fitCurve through the dangling
\* pointer: the call dies there, or goes on as if the fitter were alive
\* (the fitter is the only object a drawSeries call can find deleted)
DrawSeriesCall(painter, win, from, to) ==
    /\ life = "alive"
    /\ call' = [NoCall EXCEPT !.op = "drawSeries", !.from = from, !.to = to,
                              !.painter = painter, !.win = win]
    /\ LET l == drawSeries(painter, win, from, to)
       IN \E outcome \in (IF curveFitter # NULL /\ heap[curveFitter] # "live"
                          THEN Outcomes(l) ELSE {"returns"}) :
             /\ log' = IF outcome = "killed" THEN Killed(l) ELSE l
             /\ life' = IF outcome = "killed" THEN "killed" ELSE life
    /\ notified' = FALSE
    /\ result' = NoResult
    /\ UNCHANGED <<config, owned, data, column>>

\* QwtPlotSeriesItem::setOrientation
setOrientation(o) ==
    /\ orient' = o
    /\ Observe("setOrientation", o # orient)
    /\ UNCHANGED <<style, reference, symbol, symbolObj, curveFitter, pen, brush,
                   attributes, paintAttributes, legendAttributes, heap, series,
                   plot>>

-----------------------------------------------------------------------------
(* closestPoint *)

\* dmin = 1.0e10, the squared distance the scan starts from.  In a
\* closestPoint call the model counts device coordinates in units of 50000
\* pixels, so squared distances count units of 2.5e9 and 1.0e10 is 4.
DminInit == 4

qwtSqr(x) == x * x

\* the squared device distance of sample i to pos
sqrDist(i, pos) ==
    qwtSqr(xTransform(sample(i)[1]) - pos[1])
    + qwtSqr(yTransform(sample(i)[2]) - pos[2])

\* the loop of closestPoint from index i on, with index and dmin so far
RECURSIVE scanFrom(_, _, _, _)
scanFrom(i, pos, index, dmin) ==
    IF i >= dataSize THEN [index |-> index, dmin |-> dmin]
    ELSE LET f == sqrDist(i, pos)
         IN IF f < dmin THEN scanFrom(i + 1, pos, i, f)
            ELSE scanFrom(i + 1, pos, index, dmin)

\* what closestPoint returns and writes to *dist (wantDist: dist != NULL)
closestPoint(pos, wantDist) ==
    IF ~plot \/ dataSize <= 0 THEN [ret |-> -1, written |-> FALSE, sq |-> 0]
    ELSE LET r == scanFrom(0, pos, -1, DminInit)
         IN [ret |-> r.index, written |-> wantDist,
             sq |-> IF wantDist THEN r.dmin ELSE 0]

ClosestPointCall(pos, wantDist) ==
    /\ life = "alive"
    /\ life' = life
    /\ call' = [NoCall EXCEPT !.op = "closestPoint", !.pos = pos,
                              !.dist = wantDist]
    /\ log' = [k \in 1..(IF plot THEN dataSize ELSE 0) |-> Read(k - 1)]
    /\ notified' = FALSE
    /\ result' = closestPoint(pos, wantDist)
    /\ UNCHANGED <<config, owned, data, column>>

\* QwtPlotItem::attach(plot) / detach()
attach(on) ==
    /\ plot' = on
    /\ Observe("attach", on # plot)
    /\ UNCHANGED <<config, owned, series, orient>>

-----------------------------------------------------------------------------
(* The configuration machine: every mutator, from the constructed curve *)

ConfigStyles == {"Lines", "Sticks", "NoCurve"}

NewFitters == {o \in Objs : heap[o] = "unused"
                            /\ \A p \in Objs : heap[p] = "unused" => o <= p}

Next ==
    \/ \E s \in ConfigStyles : setStyle(s)
    \/ \E p \in {BlackPen, RedPen} : setPen(p)
    \/ \E b \in {NoBrush, BlueBrush} : setBrush(b)
    \/ \E s \in {NoSymbol, EllipseSymbol} : setSymbol(s, FALSE)
    \/ setSymbol(symbolObj, TRUE)
    \/ \E r \in {0, 1} : setBaseline(r)
    \/ \E a \in {"Fitted"}, on \in BOOLEAN : setCurveAttribute(a, on)
    \/ \E a \in PaintAttributes, on \in BOOLEAN : setPaintAttribute(a, on)
    \/ \E a \in {"LegendShowLine"}, on \in BOOLEAN : setLegendAttribute(a, on)
    \/ \E f \in {NULL, curveFitter} \cup NewFitters : setCurveFitter(f)

Spec == InitCurve /\ [][Next]_vars

-----------------------------------------------------------------------------
(* Drawing: which samples a drawSeries call reads and decorates *)

\* the samples setSamples installs: ascending in x, as a filled curve needs
Data == [i \in 1..MaxLen |-> <<i - 1, (2 * (i - 1)) % 3>>]
DrawSeries == {SubSeq(Data, 1, n) : n \in 0..MaxLen}

\* painter windows: an empty one, one that holds every device point of Data,
\* and one that lies left of and above all of them
EmptyWin == <<0, 0, 0, 0>>
BigWin == <<0, 0, 40, 40>>
FarWin == <<-20, -20, 10, 10>>

NextDraw ==
    \/ \E s \in CurveStyles : setStyle(s)
    \/ \E on \in BOOLEAN : setCurveAttribute("Fitted", on)
    \/ \E s \in {NoSymbol, EllipseSymbol} : setSymbol(s, FALSE)
    \/ setCurveFitter(NULL)
    \/ \E d \in DrawSeries : setSamples(d)
    \/ DrawSeriesCall(FALSE, EmptyWin, 0, -1)
    \/ \E w \in {EmptyWin, BigWin}, from \in -1..MaxLen, to \in -1..MaxLen :
          DrawSeriesCall(TRUE, w, from, to)

SpecDraw == InitCurve /\ [][NextDraw]_vars

(* Drawing: the geometry of the curve and of its fill *)

NextShape ==
    \/ \E s \in CurveStyles : setStyle(s)
    \/ \E a \in CurveAttributes, on \in BOOLEAN : setCurveAttribute(a, on)
    \/ \E on \in BOOLEAN : setPaintAttribute("ClipPolygons", on)
    \/ \E b \in {NoBrush, BlueBrush, PlainBrush} : setBrush(b)
    \/ \E r \in {0, 1} : setBaseline(r)
    \/ \E o \in Orientations : setOrientation(o)
    \/ \E d \in DrawSeries : setSamples(d)
    \/ \E w \in {EmptyWin, BigWin, FarWin}, from \in 0..(MaxLen - 1),
          to \in -1..(MaxLen - 1) : DrawSeriesCall(TRUE, w, from, to)

SpecShape == InitCurve /\ [][NextShape]_vars

-----------------------------------------------------------------------------
(* Reading the log of a drawSeries call *)

\* the painter's saved-state depth after the first k events of l
Depth(l, k) ==
    Cardinality({j \in 1..k : l[j].op = "save"})
    - Cardinality({j \in 1..k : l[j].op = "restore"})

\* the curve part of the log ends where its first save is restored
CurveEnd(l) ==
    IF \E k \in DOMAIN l : Depth(l, k) = 0
    THEN CHOOSE k \in DOMAIN l :
            Depth(l, k) = 0 /\ \A j \in 1..(k - 1) : Depth(l, j) # 0
    ELSE Len(l)
CurveLog == SubSeq(log, 1, CurveEnd(log))
SymbolLog == SubSeq(log, CurveEnd(log) + 1, Len(log))

\* the events of l named op, in order
Only(l, op) == SelectSeq(l, LAMBDA e : e.op = op)
\* the sample indices l reads, in order
ReadSeq(l) == [k \in DOMAIN Only(l, "sample") |-> Only(l, "sample")[k].n]
ReadSet(l) == {ReadSeq(l)[k] : k \in DOMAIN ReadSeq(l)}
\* the sequence lo, lo+1, .., hi
Range(lo, hi) == [k \in 1..(hi - lo + 1) |-> lo + k - 1]

Min(a, b) == IF a < b THEN a ELSE b
Max(a, b) == IF a < b THEN b ELSE a

\* the range the documentation of drawSeries promises for the last call:
\* a negative to means the last index, both ends are clamped into
\* [0, n-1], and an inverted range is swapped
WantTo == IF call.to < 0 THEN dataSize - 1 ELSE call.to
WantA == Max(0, Min(call.from, dataSize - 1))
WantB == Max(0, Min(WantTo, dataSize - 1))
Lo == Min(WantA, WantB)
Hi == Max(WantA, WantB)

\* the last operation was a drawSeries call that got a painter and samples
Drew == call.op = "drawSeries" /\ call.painter /\ dataSize >= 1
\* ... and its curve style reads samples for that call
CurveReadsSamples ==
    \/ style \in {"Lines", "Sticks", "Steps"}
    \/ style = "Dots" /\ ~isEmpty(call.win)

-----------------------------------------------------------------------------
(* C1 *)

\* C1 as stated: every part of a drawSeries call that draws (the curve part
\* of a style that reads samples, the symbol part of a symbol that is not
\* NoSymbol) covers exactly the resolved range [Lo, Hi]; no index outside
\* [0, n-1] is read; without samples or painter nothing is drawn.
C1_AsStated ==
    call.op = "drawSeries" =>
       /\ (~call.painter \/ dataSize = 0) => log = <<>>
       /\ Drew =>
            /\ 0 <= Lo /\ Lo <= Hi /\ Hi <= dataSize - 1
            /\ ReadSet(log) \subseteq 0..(dataSize - 1)
            /\ CurveReadsSamples => ReadSeq(CurveLog) = Range(Lo, Hi)
            /\ symbolObj.style # "NoSymbol" => ReadSeq(SymbolLog) = Range(Lo, Hi)

\* C1 amended: as C1_AsStated, except that the curve part of style Lines
\* with the Fitted attribute covers the whole series 0..n-1 instead of
\* [Lo, Hi] (the symbol part still covers [Lo, Hi]).
C1_Range ==
    call.op = "drawSeries" =>
       /\ (~call.painter \/ dataSize = 0) => log = <<>>
       /\ Drew =>
            /\ 0 <= Lo /\ Lo <= Hi /\ Hi <= dataSize - 1
            /\ ReadSet(log) \subseteq 0..(dataSize - 1)
            /\ (CurveReadsSamples /\ ~(style = "Lines" /\ "Fitted" \in attributes))
                  => ReadSeq(CurveLog) = Range(Lo, Hi)
            /\ (style = "Lines" /\ "Fitted" \in attributes)
                  => ReadSeq(CurveLog) = Range(0, dataSize - 1)
            /\ symbolObj.style # "NoSymbol" => ReadSeq(SymbolLog) = Range(Lo, Hi)

\* an inverted request whose from lies beyond the series was drawn as [1, 2]
C1_Witness ==
    /\ Drew /\ dataSize = 3 /\ call.from = 3 /\ call.to = 1
    /\ style = "Steps" /\ symbolObj.style = "Ellipse"
    /\ ReadSeq(CurveLog) = <<1, 2>> /\ ReadSeq(SymbolLog) = <<1, 2>>

-----------------------------------------------------------------------------
(* C2 *)

\* C2 as stated: with the Fitted attribute set, the curve part of every
\* drawSeries call that reads samples reads the whole series 0..n-1.
C2_AsStated ==
    (Drew /\ "Fitted" \in attributes /\ CurveReadsSamples)
       => ReadSeq(CurveLog) = Range(0, dataSize - 1)

\* C2 amended: with the Fitted attribute set and style Lines, the curve part
\* of every drawSeries call reads the whole series 0..n-1, each sample once,
\* and draws one polyline, whatever range was requested.
C2_FittedLines ==
    (Drew /\ "Fitted" \in attributes /\ style = "Lines")
       => /\ ReadSeq(CurveLog) = Range(0, dataSize - 1)
          /\ Len(Only(CurveLog, "drawPolyline")) = 1

\* a fitted Lines curve asked for [1, 1] only read all three samples
C2_Witness ==
    /\ Drew /\ "Fitted" \in attributes /\ style = "Lines"
    /\ dataSize = 3 /\ call.from = 1 /\ call.to = 1
    /\ ReadSeq(CurveLog) = <<0, 1, 2>>

-----------------------------------------------------------------------------
(* C9 *)

\* the symbol events of the log
Glyphs == Only(log, "symbol")

\* C9: after a drawSeries call that drew, a symbol that is not NoSymbol has
\* exactly one glyph per index of the resolved range [Lo, Hi], in order,
\* each centered on the device point of its sample and of the symbol's size,
\* whatever the curve style and the Fitted attribute; NoSymbol has none.
C9_Symbols ==
    Drew =>
       IF symbolObj.style = "NoSymbol" THEN Glyphs = <<>>
       ELSE /\ Len(Glyphs) = Hi - Lo + 1
            /\ \A k \in DOMAIN Glyphs :
                  /\ Glyphs[k].pts[1] = devicePoint(Lo + k - 1)
                  /\ Glyphs[k].pts[2] = <<symbolObj.w, symbolObj.h>>
                  /\ Glyphs[k].s = symbolObj.style
            /\ Glyphs = Only(SymbolLog, "symbol")

\* a fitted Lines curve asked for [1, 2] drew two glyphs, on samples 1 and 2
C9_Witness ==
    /\ Drew /\ symbolObj.style = "Ellipse" /\ style = "Lines"
    /\ "Fitted" \in attributes /\ dataSize = 3
    /\ call.from = 1 /\ call.to = 2
    /\ Len(Glyphs) = 2 /\ Glyphs[1].pts[1] = devicePoint(1)

-----------------------------------------------------------------------------
(* C5, C6, C7, C8: the geometry of a drawSeries call *)

\* the polyline of the last call, when its style draws one
Polyline == Only(log, "drawPolyline")[1].pts
\* the filled polygons of the last call
Fills == Only(log, "drawPolygon")
\* the device points of the dots of the last call
Dots == [k \in DOMAIN Only(log, "drawPoint") |-> Only(log, "drawPoint")[k].pts[1]]
Clip == "ClipPolygons" \in paintAttributes

\* the polygon the last call handed to fillCurve, where the log shows it:
\* the drawn polyline of Lines and Steps, the dots of an unclipped Dots
FillInput == IF style = "Dots" THEN Dots ELSE Polyline
ShowsFillInput ==
    /\ Drew /\ brush.style # "NoBrush"
    /\ \/ style \in {"Lines", "Steps"}
       \/ style = "Dots" /\ ~Clip /\ ~isEmpty(call.win)

\* C5: a polygon of n >= 2 vertices handed to fillCurve comes out of
\* closePolyline with its n vertices unchanged and two more: vertical,
\* (last.x, yMap.transform(R)) then (first.x, yMap.transform(R));
\* horizontal, (xMap.transform(R), last.y) then (xMap.transform(R),
\* first.y); that polygon is the one filled.  A polygon of fewer than 2
\* vertices is not changed and nothing is filled.
C5_Close ==
    ShowsFillInput =>
       LET P == FillInput
           n == Len(P)
       IN IF n >= 2
          THEN /\ Len(Fills) = 1
               /\ Len(Fills[1].pts) = n + 2
               /\ SubSeq(Fills[1].pts, 1, n) = P
               /\ Fills[1].pts[n + 1] =
                     IF orient = "Vertical"
                     THEN <<P[n][1], yTransform(reference)>>
                     ELSE <<xTransform(reference), P[n][2]>>
               /\ Fills[1].pts[n + 2] =
                     IF orient = "Vertical"
                     THEN <<P[1][1], yTransform(reference)>>
                     ELSE <<xTransform(reference), P[1][2]>>
          ELSE Fills = <<>>

\* a vertical curve of 2 points was closed to 4 vertices on the baseline 1
C5_Witness ==
    /\ ShowsFillInput /\ style = "Lines" /\ orient = "Vertical"
    /\ reference = 1 /\ Len(Polyline) = 2
    /\ Len(Fills) = 1 /\ Len(Fills[1].pts) = 4
    /\ Fills[1].pts[3][2] = yTransform(1) /\ Fills[1].pts[4][2] = yTransform(1)

\* C6 as stated: a drawSeries call that drew fills a polygon whenever the
\* brush style is not NoBrush and the style is not Sticks; with Sticks it
\* fills nothing.
C6_AsStated ==
    Drew =>
       /\ (brush.style # "NoBrush" /\ style # "Sticks") => Len(Fills) >= 1
       /\ style = "Sticks" => Fills = <<>>

\* the polygon the last call's style hands to fillCurve has >= 2 vertices
Fillable ==
    \/ style \in {"Lines", "Steps"} /\ Len(Polyline) >= 2
    \/ /\ style = "Dots" /\ ~isEmpty(call.win)
       /\ Len(IF Clip THEN clipPolygonF(call.win, Dots) ELSE Dots) >= 2

\* C6 amended: a drawSeries call that drew fills exactly one polygon, in the
\* brush's color (the pen's if the brush color is invalid), when the brush
\* style is not NoBrush, the style is Lines, Steps or Dots and the polygon of
\* the drawn range, after fitting and clipping, has at least 2 vertices (for
\* Dots the painter window must not be empty either); in every other case,
\* so always with Sticks and NoCurve, it fills nothing.
C6_Fill ==
    Drew =>
       IF brush.style # "NoBrush" /\ style \in {"Lines", "Steps", "Dots"}
          /\ Fillable
       THEN /\ Len(Fills) = 1
            /\ Only(log, "setBrush")[1].s =
                  (IF brush.color = "invalid" THEN pen.color ELSE brush.color)
       ELSE Fills = <<>>

\* a Dots curve with a brush and two dots inside the window was filled
C6_Witness ==
    /\ Drew /\ style = "Dots" /\ brush = PlainBrush /\ Clip
    /\ call.win = BigWin /\ Len(Dots) = 2 /\ Len(Fills) = 1

\* the clipper left the staircase of the last call as drawSteps built it
Unclipped == ~Clip \/ \A i \in Lo..Hi : contains(call.win, devicePoint(i))

\* C7 as stated: the polyline a Steps curve draws for a resolved range
\* [Lo, Hi] with Hi > Lo has exactly 2*(Hi-Lo)+1 vertices.
C7_AsStated ==
    (Drew /\ style = "Steps" /\ Hi > Lo) => Len(Polyline) = 2 * (Hi - Lo) + 1

\* C7 amended: the polyline a Steps curve draws for a resolved range
\* [Lo, Hi] has exactly 2*(Hi-Lo)+1 vertices when ClipPolygons is off or
\* every sample of the range lies inside the painter window.
C7_StepsCount ==
    (Drew /\ style = "Steps" /\ Unclipped) => Len(Polyline) = 2 * (Hi - Lo) + 1

\* a Steps curve over [0, 2], clipped to a window that holds it, has 5 vertices
C7_Witness ==
    /\ Drew /\ style = "Steps" /\ Clip /\ call.win = BigWin
    /\ Lo = 0 /\ Hi = 2 /\ Len(Polyline) = 5

\* C8: in the staircase of a Steps curve, vertex 2k is the device point of
\* sample Lo+k, and the corner 2k+1 is (x_k, y_k+1) when exactly one of
\* {orientation Vertical, Inverted set} holds and (x_k+1, y_k) otherwise.
C8_StepsShape ==
    (Drew /\ style = "Steps" /\ Unclipped) =>
       /\ \A k \in 0..(Hi - Lo) :
             2 * k + 1 \in DOMAIN Polyline
             /\ Polyline[2 * k + 1] = devicePoint(Lo + k)
       /\ \A k \in 0..(Hi - Lo - 1) :
             2 * k + 2 \in DOMAIN Polyline
             /\ LET a == devicePoint(Lo + k)
                    b == devicePoint(Lo + k + 1)
                    one == (orient = "Vertical" /\ "Inverted" \notin attributes)
                           \/ (orient # "Vertical" /\ "Inverted" \in attributes)
                IN Polyline[2 * k + 2] =
                     (IF one THEN <<a[1], b[2]>> ELSE <<b[1], a[2]>>)

\* a vertical, inverted Steps curve over [0, 1]: the corner is (x_1, y_0)
C8_Witness ==
    /\ Drew /\ style = "Steps" /\ Unclipped /\ orient = "Vertical"
    /\ "Inverted" \in attributes /\ Lo = 0 /\ Hi = 1
    /\ Polyline[2] = <<devicePoint(1)[1], devicePoint(0)[2]>>
    /\ Polyline[2] # devicePoint(0) /\ Polyline[2] # devicePoint(1)

-----------------------------------------------------------------------------
(* The nearest-point query *)

\* samples and positions of the query: device x is 1, 3 or 5, device y is
\* 6, 4 or 2
QueryPoints == {<<0, 0>>, <<1, 1>>, <<2, 2>>}
RECURSIVE SeqsUpTo(_, _)
SeqsUpTo(S, n) ==
    IF n = 0 THEN {<<>>}
    ELSE SeqsUpTo(S, n - 1)
         \cup {Append(q, x) : q \in {r \in SeqsUpTo(S, n - 1) : Len(r) = n - 1},
                              x \in S}
Positions == {<<1, 6>>, <<2, 5>>, <<3, 3>>, <<5, 2>>}

NextClosest ==
    \/ \E d \in SeqsUpTo(QueryPoints, MaxLen) : setSamples(d)
    \/ \E on \in BOOLEAN : attach(on)
    \/ \E pos \in Positions, wantDist \in BOOLEAN : ClosestPointCall(pos, wantDist)

SpecClosest == InitCurve /\ [][NextClosest]_vars

-----------------------------------------------------------------------------
(* C3 *)

\* C3: every step that changes the stored configuration of the curve
\* (style, baseline, symbol, pen, brush, curve, paint and legend attributes)
\* calls itemChanged() before the mutator returns.
C3_Notify == [][config' # config => notified']_vars

-----------------------------------------------------------------------------
(* C4 *)

\* the curve's owned objects: every way to call setSymbol and
\* setCurveFitter, a draw that uses the fitter, and the destructor
NextOwned ==
    \/ \E s \in {NoSymbol, EllipseSymbol} : setSymbol(s, FALSE)
    \/ setSymbol(symbolObj, TRUE)
    \/ \E f \in {NULL, curveFitter} \cup NewFitters : setCurveFitter(f)
    \/ \E on \in BOOLEAN : setCurveAttribute("Fitted", on)
    \/ \E d \in {<<>>, Data} : setSamples(d)
    \/ DrawSeriesCall(TRUE, BigWin, 0, -1)
    \/ destroy

SpecOwned == InitCurve /\ [][NextOwned]_vars

\* C4: the symbol is a live instance, the fitter is NULL or a live instance,
\* every other instance ever created has been freed exactly once (after the
\* destructor: every instance), no instance is freed twice, and the
\* setSymbol or setCurveFitter call just made has called itemChanged().
C4_Owned ==
    /\ life # "destroyed"
       => /\ heap[symbol] = "live"
          /\ curveFitter = NULL \/ heap[curveFitter] = "live"
          /\ \A o \in Objs \ {symbol, curveFitter} :
                heap[o] \in {"unused", "freed"}
    /\ life = "destroyed" => \A o \in Objs : heap[o] \in {"unused", "freed"}
    /\ \A o \in Objs : heap[o] # "freedTwice"
    /\ call.op \in {"setSymbol", "setCurveFitter"} => notified

-----------------------------------------------------------------------------
(* C10 *)

\* C10: closestPoint returns -1, leaving *dist untouched, if and only if
\* the series is empty or the curve is not attached; otherwise it returns an
\* index of the series that no sample beats in squared device distance to
\* pos, and writes the square root of that distance to *dist if supplied.
C10_Closest ==
    call.op = "closestPoint" =>
       /\ (result.ret = -1) <=> (dataSize = 0 \/ ~plot)
       /\ result.ret = -1 => ~result.written
       /\ result.ret # -1 =>
            /\ result.ret \in 0..(dataSize - 1)
            /\ \A j \in 0..(dataSize - 1) :
                  sqrDist(result.ret, call.pos) <= sqrDist(j, call.pos)
            /\ result.written = call.dist
            /\ call.dist => result.sq = sqrDist(result.ret, call.pos)

-----------------------------------------------------------------------------
(* drawLegendIdentifier.  A rectangle is <<left, top, width, height>>.  The *)
(* legend rectangle is a QRectF: in a drawLegendIdentifier call the model   *)
(* counts lengths in quarters of a pixel, so that a rectangle sized in half *)
(* pixels has its center on the grid.                                       *)

\* n pixels, in quarters of a pixel
Px(n) == 4 * n

\* the conversion double -> int of "const int dim = qMin(...)": the
\* fraction of q quarters is dropped, the result counts pixels
toInt(q) == IF q >= 0 THEN q \div 4 ELSE -((-q) \div 4)

\* qRound(p / q) for p >= 0, q > 0: int(p / q + 0.5)
qRound(p, q) == (2 * p + q) \div (2 * q)

\* QRectF::center()
center(rect) == <<rect[1] + rect[3] \div 2, rect[2] + rect[4] \div 2>>

\* QRectF(0, 0, w, h) after moveCenter(c)
centered(c, w, h) == <<c[1] - w \div 2, c[2] - h \div 2, w, h>>

\* painter->fillRect(r, brush)
FillRect(r, color) == Ev("fillRect", << <<r[1], r[2]>>, <<r[3], r[4]>> >>, 0, color)

\* QPen(Qt::NoPen), what pen() is compared with
NoPen == [style |-> "NoPen", color |-> "black"]
\* QBrush(color)
SolidBrush(color) == [style |-> "SolidPattern", color |-> color]

\* legendBrush that asks the symbol before the curve style
legendBrushSymbolFirst ==
    IF brush.style # "NoBrush" THEN brush
    ELSE IF symbolObj.style # "NoSymbol" THEN SolidBrush(symbolObj.color)
    ELSE IF style # "NoCurve" THEN SolidBrush(pen.color)
    ELSE brush

\* the brush of the glyph drawn when no legend attribute is set
legendBrush ==
    IF brush.style # "NoBrush" THEN brush
    ELSE IF style # "NoCurve" THEN SolidBrush(pen.color)
    ELSE IF symbolObj.style # "NoSymbol" THEN SolidBrush(symbolObj.color)
    ELSE brush

\* the square r: side dim, centered in rect
legendSquare(rect) ==
    LET dim == toInt(IF rect[3] < rect[4] THEN rect[3] ELSE rect[4])
    IN centered(center(rect), Px(dim), Px(dim))

\* the size <<w, h>> the symbol is drawn with: size scaled down if it does
\* not fit into rect
scaledSymbolSize(rect, size) ==
    LET s1 == IF rect[3] < size[1]
              THEN << rect[3], Px(qRound(size[2] * rect[3], 4 * size[1])) >>
              ELSE size
    IN IF rect[4] < s1[2]
       THEN << Px(qRound(s1[1] * rect[3], 4 * s1[1])), rect[4] >>
       ELSE s1

drawLegendIdentifier(rect) ==
    IF isEmpty(rect) THEN <<>>
    ELSE LET r == legendSquare(rect)
             c == center(rect)
         IN (IF legendAttributes = {} /\ legendBrush.style # "NoBrush"
             THEN << FillRect(r, legendBrush.color) >> ELSE <<>>)
            \o (IF "LegendShowBrush" \in legendAttributes
                   /\ brush.style # "NoBrush"
                THEN << FillRect(r, brush.color) >> ELSE <<>>)
            \o (IF "LegendShowLine" \in legendAttributes /\ pen # NoPen
                THEN << Ev("setPen", <<>>, 0, pen.color),
                        Ev("drawLine", << <<rect[1], c[2]>>,
                                          <<rect[1] + rect[3] - Px(1), c[2]>> >>,
                           0, "") >>
                ELSE <<>>)
            \o (IF "LegendShowSymbol" \in legendAttributes
                   /\ symbolObj.style # "NoSymbol"
                THEN << Ev("setBrush", <<>>, 0, symbolObj.color),
                        Ev("setPen", <<>>, 0, symbolObj.color),
                        Ev("symbol",
                           << c, scaledSymbolSize(rect, <<Px(symbolObj.w),
                                                          Px(symbolObj.h)>>) >>,
                           0, symbolObj.style) >>
                ELSE <<>>)

\* a drawLegendIdentifier call: a const method, it changes the painter only
DrawLegendIdentifierCall(rect) ==
    /\ life = "alive"
    /\ life' = life
    /\ call' = [NoCall EXCEPT !.op = "drawLegendIdentifier", !.rect = rect]
    /\ log' = drawLegendIdentifier(rect)
    /\ notified' = FALSE
    /\ result' = NoResult
    /\ UNCHANGED <<config, owned, data, column>>

\* symbols taller than wide and wider than tall
TallSymbol == [style |-> "Rect", w |-> 2, h |-> 6, color |-> "green"]
WideSymbol == [style |-> "Rect", w |-> 6, h |-> 2, color |-> "green"]

\* legend rectangles: sides of 0, 0.5, 1.5, 3 and 4 pixels
LegendSides == {0, 2, 6, 12, 16}
LegendRects == {<<x, 0, w, h>> : x \in {0, 8}, w \in LegendSides, h \in LegendSides}

NextLegend ==
    \/ \E s \in {"NoCurve", "Lines"} : setStyle(s)
    \/ \E p \in {BlackPen, RedPen, NoPen} : setPen(p)
    \/ \E b \in {NoBrush, BlueBrush} : setBrush(b)
    \/ \E s \in {NoSymbol, EllipseSymbol, TallSymbol, WideSymbol} : setSymbol(s, FALSE)
    \/ \E a \in LegendAttributes, on \in BOOLEAN : setLegendAttribute(a, on)
    \/ \E r \in LegendRects : DrawLegendIdentifierCall(r)

SpecLegend == InitCurve /\ [][NextLegend]_vars

\* the last operation was a drawLegendIdentifier call on a non-empty rectangle
DrewLegend == call.op = "drawLegendIdentifier" /\ ~isEmpty(call.rect)

\* the brush the stated priority chooses, NoBrush when nothing applies
PriorityBrush ==
    IF brush.style # "NoBrush" THEN brush
    ELSE IF style # "NoCurve" THEN SolidBrush(pen.color)
    ELSE IF symbolObj.style # "NoSymbol" THEN SolidBrush(symbolObj.color)
    ELSE NoBrush

\* the log of a default glyph whose square has the given side
DefaultGlyph(side) ==
    IF PriorityBrush.style = "NoBrush" THEN <<>>
    ELSE << FillRect(centered(center(call.rect), side, side),
                     PriorityBrush.color) >>

\* C11 as stated: with no legend attribute and a non-empty rectangle, the
\* call draws nothing but at most one filled square of side min(width,
\* height), centered in the rectangle, in the brush the priority chooses
C11_AsStated ==
    (DrewLegend /\ legendAttributes = {})
    => log = DefaultGlyph(Min(call.rect[3], call.rect[4]))

\* C11: with no legend attribute and a non-empty rectangle, the call draws
\* nothing but at most one filled square, centered in the rectangle, whose
\* side is min(width, height) with its fraction of a pixel dropped, in the
\* curve brush if it has a style, else the pen color if the curve has a
\* style, else the symbol's color if there is a symbol, else nothing
C11_DefaultGlyph ==
    (DrewLegend /\ legendAttributes = {})
    => log = DefaultGlyph(Px(Min(call.rect[3], call.rect[4]) \div 4))

\* a curve without style and brush whose glyph takes the symbol's color, in
\* a rectangle 3 pixels wide and 1.5 pixels high
C11_Witness ==
    /\ DrewLegend /\ legendAttributes = {}
    /\ style = "NoCurve" /\ brush.style = "NoBrush"
    /\ symbolObj.style # "NoSymbol"
    /\ call.rect[3] = 12 /\ call.rect[4] = 6
    /\ Len(log) = 1 /\ log[1].s = symbolObj.color

\* the size the symbol of the legend was drawn with, and the configured one
DrawnSize == Only(log, "symbol")[1].pts[2]
SymbolSize == <<Px(symbolObj.w), Px(symbolObj.h)>>

\* the last operation drew the symbol into a legend rectangle that the
\* symbol exceeds in width or in height
DrewOversized ==
    /\ DrewLegend
    /\ "LegendShowSymbol" \in legendAttributes
    /\ symbolObj.style # "NoSymbol"
    /\ (call.rect[3] < SymbolSize[1] \/ call.rect[4] < SymbolSize[2])

\* width : height of a is that of b, but for half a pixel of rounding in
\* one of a's sides
SameAspect(a, b) ==
    LET d == a[1] * b[2] - a[2] * b[1]
    IN (IF d < 0 THEN -d ELSE d) <= 2 * Max(b[1], b[2])

\* C12: a symbol larger than the legend rectangle is drawn scaled down: its
\* drawn size fits into the rectangle and keeps the aspect ratio of the
\* symbol's size, up to rounding
C12_Scaled ==
    DrewOversized
    => /\ Len(Only(log, "symbol")) = 1
       /\ DrawnSize[1] <= call.rect[3]
       /\ DrawnSize[2] <= call.rect[4]
       /\ SameAspect(DrawnSize, SymbolSize)

-----------------------------------------------------------------------------
(* QwtColumnSymbol.  The line width is clamped to half a side of the        *)
(* rectangle: in a QwtColumnSymbol::draw call the model counts lengths in   *)
(* halves of a pixel; the limits of the intervals are whole pixels.         *)

\* the widest line setLineWidth installs
MaxLineWidth == 3
\* the longest interval of a column, in pixels
MaxSide == 6

\* n pixels, in halves of a pixel
Hp(n) == 2 * n

\* the call of a QwtColumnSymbol mutator: none of them notifies anybody
ObserveColumn(op) ==
    /\ life = "alive"
    /\ life' = life
    /\ call' = [NoCall EXCEPT !.op = op]
    /\ log' = <<>>
    /\ notified' = FALSE
    /\ result' = NoResult
    /\ UNCHANGED <<config, owned, data>>

QwtColumnSymbol_setStyle(s) ==
    /\ columnStyle' = s
    /\ ObserveColumn("QwtColumnSymbol::setStyle")
    /\ UNCHANGED <<frameStyle, palette, lineWidth>>

QwtColumnSymbol_setPalette(p) ==
    /\ palette' = p
    /\ ObserveColumn("QwtColumnSymbol::setPalette")
    /\ UNCHANGED <<columnStyle, frameStyle, lineWidth>>

QwtColumnSymbol_setFrameStyle(f) ==
    /\ frameStyle' = f
    /\ ObserveColumn("QwtColumnSymbol::setFrameStyle")
    /\ UNCHANGED <<columnStyle, palette, lineWidth>>

QwtColumnSymbol_setLineWidth(w) ==
    /\ lineWidth' = w
    /\ ObserveColumn("QwtColumnSymbol::setLineWidth")
    /\ UNCHANGED <<columnStyle, frameStyle, palette>>

\* QRectF: corners, adjusted(), isValid(), and the polygon of a rectangle
topLeft(r) == <<r[1], r[2]>>
topRight(r) == <<r[1] + r[3], r[2]>>
bottomLeft(r) == <<r[1], r[2] + r[4]>>
bottomRight(r) == <<r[1] + r[3], r[2] + r[4]>>
adjusted(r, dx1, dy1, dx2, dy2) ==
    <<r[1] + dx1, r[2] + dy1, r[3] + dx2 - dx1, r[4] + dy2 - dy1>>
isValid(r) == r[3] > 0 /\ r[4] > 0
QPolygonF(r) == <<topLeft(r), topRight(r), bottomRight(r), bottomLeft(r),
                  topLeft(r)>>

\* QPolygonF::subtracted: the ring of polygon, then the ring of the hole
subtracted(polygon, hole) == polygon \o hole

\* QwtColumnRect::toRect: the normalized rectangle of the two intervals
toRect(h, v) ==
    << Hp(Min(h.min, h.max)), Hp(Min(v.min, v.max)),
       Hp(Max(h.min, h.max) - Min(h.min, h.max)),
       Hp(Max(v.min, v.max) - Min(v.min, v.max)) >>

\* lw = qMin(lw, rect.height() / 2.0 - 1.0);
\* lw = qMin(lw, rect.width() / 2.0 - 1.0);
clampedWidth(rect, lw) ==
    Min(Min(lw, rect[4] \div 2 - Hp(1)), rect[3] \div 2 - Hp(1))

\* drawBox that draws the top edge of a rectangle of width 0
drawBoxTopEdge(rect, pal, lw) ==
    IF lw > 0 /\ rect[3] = 0
    THEN << Ev("setPen", <<>>, 0, pal.dark),
            Ev("drawLine", <<topLeft(rect), topRight(rect)>>, 0, "") >>
    ELSE IF lw > 0 /\ rect[4] = 0
    THEN << Ev("setPen", <<>>, 0, pal.dark),
            Ev("drawLine", <<topLeft(rect), topRight(rect)>>, 0, "") >>
    ELSE LET lw1 == IF lw > 0 THEN clampedWidth(rect, lw) ELSE lw
             outerRect == adjusted(rect, 0, 0, Hp(1), Hp(1))
             innerRect == adjusted(outerRect, lw1, lw1, -lw1, -lw1)
             polygon == IF outerRect[3] > 2 * lw1 /\ outerRect[4] > 2 * lw1
                        THEN subtracted(QPolygonF(outerRect),
                                        QPolygonF(innerRect))
                        ELSE QPolygonF(outerRect)
             windowRect == adjusted(rect, lw1, lw1, -lw1 + Hp(1), -lw1 + Hp(1))
         IN (IF lw > 0
             THEN << Ev("setPen", <<>>, 0, "NoPen"),
                     Ev("setBrush", <<>>, 0, pal.dark),
                     Ev("drawPolygon", polygon, 0, "") >>
             ELSE <<>>)
            \o (IF isValid(windowRect)
                THEN << FillRect(windowRect, pal.window) >> ELSE <<>>)

\* the static drawBox(p, rect, pal, lw): the Plain frame
drawBox(rect, pal, lw) ==
    IF lw > 0 /\ rect[3] = 0
    THEN << Ev("setPen", <<>>, 0, pal.dark),
            Ev("drawLine", <<topLeft(rect), bottomLeft(rect)>>, 0, "") >>
    ELSE IF lw > 0 /\ rect[4] = 0
    THEN << Ev("setPen", <<>>, 0, pal.dark),
            Ev("drawLine", <<topLeft(rect), topRight(rect)>>, 0, "") >>
    ELSE LET lw1 == IF lw > 0 THEN clampedWidth(rect, lw) ELSE lw
             outerRect == adjusted(rect, 0, 0, Hp(1), Hp(1))
             innerRect == adjusted(outerRect, lw1, lw1, -lw1, -lw1)
             polygon == IF outerRect[3] > 2 * lw1 /\ outerRect[4] > 2 * lw1
                        THEN subtracted(QPolygonF(outerRect),
                                        QPolygonF(innerRect))
                        ELSE QPolygonF(outerRect)
             windowRect == adjusted(rect, lw1, lw1, -lw1 + Hp(1), -lw1 + Hp(1))
         IN (IF lw > 0
             THEN << Ev("setPen", <<>>, 0, "NoPen"),
                     Ev("setBrush", <<>>, 0, pal.dark),
                     Ev("drawPolygon", polygon, 0, "") >>
             ELSE <<>>)
            \o (IF isValid(windowRect)
                THEN << FillRect(windowRect, pal.window) >> ELSE <<>>)

\* drawPanel whose fill stops at the right and bottom edge of rect
drawPanelShortFill(rect, pal, lw) ==
    IF lw > 0 /\ rect[3] = 0
    THEN << Ev("setPen", <<>>, 0, pal.window),
            Ev("drawLine", <<topLeft(rect), bottomLeft(rect)>>, 0, "") >>
    ELSE IF lw > 0 /\ rect[4] = 0
    THEN << Ev("setPen", <<>>, 0, pal.window),
            Ev("drawLine", <<topLeft(rect), topRight(rect)>>, 0, "") >>
    ELSE LET lw1 == IF lw > 0 THEN clampedWidth(rect, lw) ELSE lw
             outerRect == adjusted(rect, 0, 0, Hp(1), Hp(1))
             innerRect == adjusted(outerRect, lw1, lw1, -lw1, -lw1)
         IN (IF lw > 0
             THEN << Ev("setPen", <<>>, 0, "NoPen"),
                     Ev("setBrush", <<>>, 0, pal.light),
                     Ev("drawPolygon",
                        << bottomLeft(outerRect), topLeft(outerRect),
                           topRight(outerRect), topRight(innerRect),
                           topLeft(innerRect), bottomLeft(innerRect) >>, 0, ""),
                     Ev("setBrush", <<>>, 0, pal.dark),
                     Ev("drawPolygon",
                        << topRight(outerRect), bottomRight(outerRect),
                           bottomLeft(outerRect), bottomLeft(innerRect),
                           bottomRight(innerRect), topRight(innerRect) >>,
                        0, "") >>
             ELSE <<>>)
            \o << FillRect(adjusted(rect, lw1, lw1, -lw1, -lw1),
                           pal.window) >>

\* the static drawPanel(p, rect, pal, lw): the Raised frame
drawPanel(rect, pal, lw) ==
    IF lw > 0 /\ rect[3] = 0
    THEN << Ev("setPen", <<>>, 0, pal.window),
            Ev("drawLine", <<topLeft(rect), bottomLeft(rect)>>, 0, "") >>
    ELSE IF lw > 0 /\ rect[4] = 0
    THEN << Ev("setPen", <<>>, 0, pal.window),
            Ev("drawLine", <<topLeft(rect), topRight(rect)>>, 0, "") >>
    ELSE LET lw1 == IF lw > 0 THEN clampedWidth(rect, lw) ELSE lw
             outerRect == adjusted(rect, 0, 0, Hp(1), Hp(1))
             innerRect == adjusted(outerRect, lw1, lw1, -lw1, -lw1)
         IN (IF lw > 0
             THEN << Ev("setPen", <<>>, 0, "NoPen"),
                     Ev("setBrush", <<>>, 0, pal.light),
                     Ev("drawPolygon",
                        << bottomLeft(outerRect), topLeft(outerRect),
                           topRight(outerRect), topRight(innerRect),
                           topLeft(innerRect), bottomLeft(innerRect) >>, 0, ""),
                     Ev("setBrush", <<>>, 0, pal.dark),
                     Ev("drawPolygon",
                        << topRight(outerRect), bottomRight(outerRect),
                           bottomLeft(outerRect), bottomLeft(innerRect),
                           bottomRight(innerRect), topRight(innerRect) >>,
                        0, "") >>
             ELSE <<>>)
            \o << FillRect(adjusted(rect, lw1, lw1, -lw1 + Hp(1), -lw1 + Hp(1)),
                           pal.window) >>

\* borderAdjusted whose vertical flags move the opposite edges
borderAdjustedFlipped(h, v) ==
    LET r0 == toRect(h, v)
        r1 == IF "ExcludeMinimum" \in h.flags
              THEN adjusted(r0, Hp(1), 0, 0, 0) ELSE r0
        r2 == IF "ExcludeMaximum" \in h.flags
              THEN adjusted(r1, 0, 0, -Hp(1), 0) ELSE r1
        r3 == IF "ExcludeMaximum" \in v.flags
              THEN adjusted(r2, 0, Hp(1), 0, 0) ELSE r2
    IN IF "ExcludeMinimum" \in v.flags
       THEN adjusted(r3, 0, 0, 0, -Hp(1)) ELSE r3

\* r of QwtColumnSymbol::drawBox: the rectangle without its excluded borders
borderAdjusted(h, v) ==
    LET r0 == toRect(h, v)
        r1 == IF "ExcludeMinimum" \in h.flags
              THEN adjusted(r0, Hp(1), 0, 0, 0) ELSE r0
        r2 == IF "ExcludeMaximum" \in h.flags
              THEN adjusted(r1, 0, 0, -Hp(1), 0) ELSE r1
        r3 == IF "ExcludeMinimum" \in v.flags
              THEN adjusted(r2, 0, Hp(1), 0, 0) ELSE r2
    IN IF "ExcludeMaximum" \in v.flags
       THEN adjusted(r3, 0, 0, 0, -Hp(1)) ELSE r3

\* QwtColumnSymbol::drawBox whose frameless fill covers all of r
QwtColumnSymbol_drawBoxFullFill(h, v) ==
    LET r == borderAdjusted(h, v)
    IN CASE frameStyle = "Raised" -> drawPanel(r, palette, Hp(lineWidth))
         [] frameStyle = "Plain" -> drawBox(r, palette, Hp(lineWidth))
         [] OTHER -> << FillRect(adjusted(r, 0, 0, 0, 0),
                                 palette.window) >>

\* QwtColumnSymbol::drawBox(painter, rect)
QwtColumnSymbol_drawBox(h, v) ==
    LET r == borderAdjusted(h, v)
    IN CASE frameStyle = "Raised" -> drawPanel(r, palette, Hp(lineWidth))
         [] frameStyle = "Plain" -> drawBox(r, palette, Hp(lineWidth))
         [] OTHER -> << FillRect(adjusted(r, 0, 0, -Hp(1), -Hp(1)),
                                 palette.window) >>

\* QwtColumnSymbol::draw that restores the painter after a Box only
QwtColumnSymbol_drawNoRestore(h, v) ==
    << Ev("save", <<>>, 0, "") >>
    \o (IF columnStyle = "Box"
        THEN QwtColumnSymbol_drawBox(h, v) \o << Ev("restore", <<>>, 0, "") >>
        ELSE <<>>)

\* QwtColumnSymbol::draw(painter, rect)
QwtColumnSymbol_draw(h, v) ==
    << Ev("save", <<>>, 0, "") >>
    \o (IF columnStyle = "Box" THEN QwtColumnSymbol_drawBox(h, v) ELSE <<>>)
    \o << Ev("restore", <<>>, 0, "") >>

\* a QwtColumnSymbol::draw call: a const method, it changes the painter only
ColumnDrawCall(h, v) ==
    /\ life = "alive"
    /\ life' = life
    /\ call' = [NoCall EXCEPT !.op = "QwtColumnSymbol::draw",
                              !.hInterval = h, !.vInterval = v]
    /\ log' = QwtColumnSymbol_draw(h, v)
    /\ notified' = FALSE
    /\ result' = NoResult
    /\ UNCHANGED <<config, owned, data, column>>

\* the intervals of a column: empty, one pixel, the longest one, and two
\* pixels off the origin with the limits swapped
Intervals ==
    {[min |-> m[1], max |-> m[2], flags |-> f] :
        m \in {<<0, 0>>, <<0, 1>>, <<0, MaxSide>>, <<3, 1>>},
        f \in SUBSET BorderFlags}

NextColumn ==
    \/ \E s \in ColumnStyles : QwtColumnSymbol_setStyle(s)
    \/ \E p \in {GrayPalette, BluePalette} : QwtColumnSymbol_setPalette(p)
    \/ \E f \in FrameStyles : QwtColumnSymbol_setFrameStyle(f)
    \/ \E w \in -1..MaxLineWidth : QwtColumnSymbol_setLineWidth(w)
    \/ \E h \in Intervals, v \in Intervals : ColumnDrawCall(h, v)

SpecColumn == Init /\ [][NextColumn]_vars

-----------------------------------------------------------------------------
(* Reading the log of a QwtColumnSymbol::draw call *)

\* the last operation drew a column of style Box
DrewColumn == call.op = "QwtColumnSymbol::draw" /\ columnStyle = "Box"

\* what drawBox painted: the log between save and restore
ColumnLog == SubSeq(log, 2, Len(log) - 1)

\* the rectangle of a fillRect event
RectOf(e) == <<e.pts[1][1], e.pts[1][2], e.pts[2][1], e.pts[2][2]>>

\* the rectangle with the corners tl and br
Spanned(tl, br) == <<tl[1], tl[2], br[1] - tl[1], br[2] - tl[2]>>

\* the rectangle r the frame was drawn for, read back from what was painted:
\* from the fill of a column without frame or without line width, from the
\* line of a degenerate column, from the outer ring of a frame
DrawnRect ==
    LET e == ColumnLog
        lw == Hp(lineWidth)
    IN IF frameStyle \notin {"Plain", "Raised"}
       THEN adjusted(RectOf(e[1]), 0, 0, Hp(1), Hp(1))
       ELSE IF lineWidth <= 0
       THEN adjusted(RectOf(e[1]), -lw, -lw, lw - Hp(1), lw - Hp(1))
       ELSE IF e[2].op = "drawLine"
       THEN Spanned(e[2].pts[1], e[2].pts[2])
       ELSE IF frameStyle = "Plain"
       THEN adjusted(Spanned(e[3].pts[1], e[3].pts[3]), 0, 0, -Hp(1), -Hp(1))
       ELSE adjusted(Spanned(e[3].pts[2],
                             <<e[3].pts[3][1], e[3].pts[1][2]>>),
                     0, 0, -Hp(1), -Hp(1))

\* by how much an edge moves inwards: one pixel iff the flag is set
Inset(interval, flag) == IF flag \in interval.flags THEN Hp(1) ELSE 0

\* C13: the column is drawn for the rectangle of its two intervals with the
\* left edge moved in by 1 iff the horizontal interval excludes its minimum,
\* the right edge iff it excludes its maximum, the top edge iff the vertical
\* interval excludes its minimum, the bottom edge iff it excludes its
\* maximum, and no edge moved otherwise
C13_Inset ==
    (DrewColumn /\ Len(ColumnLog) > 0)
    => LET h == call.hInterval
           v == call.vInterval
           r0 == toRect(h, v)
       IN /\ topLeft(DrawnRect)
               = << r0[1] + Inset(h, "ExcludeMinimum"),
                    r0[2] + Inset(v, "ExcludeMinimum") >>
          /\ bottomRight(DrawnRect)
               = << r0[1] + r0[3] - Inset(h, "ExcludeMaximum"),
                    r0[2] + r0[4] - Inset(v, "ExcludeMaximum") >>

\* a column of 6 x 6 pixels that excludes the minimum of its horizontal and
\* the maximum of its vertical interval: the left and the bottom edge have
\* moved, the top and the right edge have not
C13_Witness ==
    /\ DrewColumn /\ Len(ColumnLog) > 0
    /\ call.hInterval = [min |-> 0, max |-> MaxSide, flags |-> {"ExcludeMinimum"}]
    /\ call.vInterval = [min |-> 0, max |-> MaxSide, flags |-> {"ExcludeMaximum"}]
    /\ DrawnRect = <<Hp(1), 0, Hp(MaxSide - 1), Hp(MaxSide - 1)>>

\* the border-adjusted rectangle of the last call, as C13 states it
ClaimedRect ==
    LET h == call.hInterval
        v == call.vInterval
        r0 == toRect(h, v)
    IN adjusted(r0, Inset(h, "ExcludeMinimum"), Inset(v, "ExcludeMinimum"),
                -Inset(h, "ExcludeMaximum"), -Inset(v, "ExcludeMaximum"))

\* the one line in the palette's dark tone along the left edge
LeftEdgeLine ==
    << Ev("setPen", <<>>, 0, palette.dark),
       Ev("drawLine", <<topLeft(ClaimedRect), bottomLeft(ClaimedRect)>>, 0, "") >>

\* C14 as stated: a Plain column whose rectangle has width 0 draws one dark
\* line along the left edge and nothing else, for every line width
C14_AsStated ==
    (DrewColumn /\ frameStyle = "Plain" /\ ClaimedRect[3] = 0)
    => ColumnLog = LeftEdgeLine

\* the window-tone fill of a Plain column of line width lw <= 0: the rectangle
\* moved out by -lw at the left and top and by -lw + 1 at the right and bottom
PlainWindow ==
    LET lw == Hp(lineWidth)
    IN << ClaimedRect[1] + lw, ClaimedRect[2] + lw,
          ClaimedRect[3] - 2 * lw + Hp(1), ClaimedRect[4] - 2 * lw + Hp(1) >>

\* C14: a Plain column whose rectangle has width 0 draws, for every line
\* width above 0, one dark line along the left edge and nothing else; for a
\* line width lw of 0 or less it draws no line and no polygon: all it paints
\* is one window-tone fill of the rectangle grown by -lw at the left and top
\* and by -lw + 1 at the right and bottom, and nothing when that rectangle
\* has no positive width and height
C14_PlainLine ==
    (DrewColumn /\ frameStyle = "Plain" /\ ClaimedRect[3] = 0)
    => ColumnLog = IF lineWidth > 0 THEN LeftEdgeLine
                   ELSE IF PlainWindow[3] > 0 /\ PlainWindow[4] > 0
                   THEN << FillRect(PlainWindow, palette.window) >>
                   ELSE <<>>

\* a Plain column of width 0 and height 6 with a line width above 0
C14_Witness ==
    /\ DrewColumn /\ frameStyle = "Plain" /\ lineWidth > 0
    /\ ClaimedRect[3] = 0 /\ ClaimedRect[4] = Hp(MaxSide)
    /\ Len(Only(ColumnLog, "drawLine")) = 1

\* C15: a Raised column of line width 0 paints no border polygon and no
\* line: all it paints is one fill in the palette's window tone, from the top
\* left corner of the border-adjusted rectangle to one pixel beyond its
\* bottom right corner, whatever the rectangle
C15_RaisedFlat ==
    (DrewColumn /\ frameStyle = "Raised" /\ lineWidth = 0)
    => ColumnLog = << FillRect(adjusted(ClaimedRect, 0, 0, Hp(1), Hp(1)),
                               palette.window) >>

\* a Raised column of line width 0 and width 0: one fill, one pixel wide
C15_Witness ==
    /\ DrewColumn /\ frameStyle = "Raised" /\ lineWidth = 0
    /\ ClaimedRect[3] = 0 /\ ClaimedRect[4] = Hp(MaxSide)
    /\ Len(ColumnLog) = 1
    /\ RectOf(ColumnLog[1]) = <<ClaimedRect[1], ClaimedRect[2], Hp(1),
                                Hp(MaxSide + 1)>>

\* the last thing a column draw painted is a fill in the window tone
FillIsLast ==
    /\ Len(ColumnLog) > 0
    /\ ColumnLog[Len(ColumnLog)].op = "fillRect"
    /\ ColumnLog[Len(ColumnLog)].s = palette.window

\* C16 as stated: whatever the frame style, the line width and the
\* rectangle, the last draw operation of a column draw is a fill in the
\* palette's window tone
C16_AsStated == DrewColumn => FillIsLast

\* a framed column with a line width above 0 whose rectangle has no width or
\* no height
Degenerate ==
    /\ frameStyle \in {"Plain", "Raised"}
    /\ lineWidth > 0
    /\ (ClaimedRect[3] = 0 \/ ClaimedRect[4] = 0)

\* the interior of the column: inside a frame the rectangle inset by the
\* clamped line width and extended by one pixel to the right and bottom,
\* without a frame the rectangle less one pixel at the right and bottom
Interior ==
    LET r == ClaimedRect
        lw == IF lineWidth > 0 THEN clampedWidth(r, Hp(lineWidth))
              ELSE Hp(lineWidth)
    IN IF frameStyle \in {"Plain", "Raised"}
       THEN adjusted(r, lw, lw, -lw + Hp(1), -lw + Hp(1))
       ELSE adjusted(r, 0, 0, -Hp(1), -Hp(1))

\* C16: the last draw operation of a column draw is the one fill of the
\* interior in the palette's window tone, except that a degenerate framed
\* column paints a line and no fill, and a Plain column whose interior is not
\* a valid rectangle paints no fill
C16_FillLast ==
    DrewColumn
    => IF Degenerate
       THEN /\ ColumnLog[Len(ColumnLog)].op = "drawLine"
            /\ Only(ColumnLog, "fillRect") = <<>>
       ELSE IF frameStyle = "Plain" /\ ~isValid(Interior)
       THEN Only(ColumnLog, "fillRect") = <<>>
       ELSE /\ FillIsLast
            /\ Only(ColumnLog, "fillRect")
                 = << FillRect(Interior, palette.window) >>

\* a Plain column of 6 x 6 pixels and line width 2: the frame polygon, then
\* the fill of the interior
C16_Witness ==
    /\ DrewColumn /\ frameStyle = "Plain" /\ lineWidth = 2
    /\ ClaimedRect = <<0, 0, Hp(MaxSide), Hp(MaxSide)>>
    /\ Len(Only(ColumnLog, "drawPolygon")) = 1
    /\ FillIsLast
    /\ RectOf(ColumnLog[Len(ColumnLog)])
         = <<Hp(2), Hp(2), Hp(MaxSide - 3), Hp(MaxSide - 3)>>

\* rectangle a lies within rectangle b
Within(a, b) ==
    /\ b[1] <= a[1] /\ a[1] + a[3] <= b[1] + b[3]
    /\ b[2] <= a[2] /\ a[2] + a[4] <= b[2] + b[4]

\* the last call drew a frame with a line width above 0 around a rectangle
\* of non-zero width and height, and filled its interior
DrewFrame ==
    /\ DrewColumn
    /\ frameStyle \in {"Plain", "Raised"}
    /\ lineWidth > 0
    /\ ClaimedRect[3] # 0 /\ ClaimedRect[4] # 0
    /\ Only(ColumnLog, "fillRect") # <<>>

\* the border thickness in effect: how far the fill lies inside the rectangle
Thickness == RectOf(Only(ColumnLog, "fillRect")[1])[1] - ClaimedRect[1]

\* C18: the border thickness of a Plain or Raised frame with a line width
\* above 0 lies between 0 and the line width, and the window-tone fill lies
\* within the outer rectangle (the rectangle extended by one pixel to the
\* right and bottom)
C18_Clamped ==
    DrewFrame
    => /\ 0 <= Thickness /\ Thickness <= Hp(lineWidth)
       /\ Within(RectOf(Only(ColumnLog, "fillRect")[1]),
                 adjusted(ClaimedRect, 0, 0, Hp(1), Hp(1)))

-----------------------------------------------------------------------------
(* The painter state across a draw call: drawSeries and QwtColumnSymbol::draw *)

\* intervals without border flags
PlainIntervals == {i \in Intervals : i.flags = {}}

NextPaint ==
    \/ \E s \in CurveStyles : setStyle(s)
    \/ \E b \in {NoBrush, BlueBrush} : setBrush(b)
    \/ \E s \in {NoSymbol, EllipseSymbol} : setSymbol(s, FALSE)
    \/ \E d \in DrawSeries : setSamples(d)
    \/ DrawSeriesCall(FALSE, EmptyWin, 0, -1)
    \/ \E w \in {EmptyWin, BigWin} : DrawSeriesCall(TRUE, w, 0, -1)
    \/ \E s \in ColumnStyles : QwtColumnSymbol_setStyle(s)
    \/ \E f \in FrameStyles : QwtColumnSymbol_setFrameStyle(f)
    \/ \E w \in {0, MaxLineWidth} : QwtColumnSymbol_setLineWidth(w)
    \/ \E h \in PlainIntervals, v \in PlainIntervals : ColumnDrawCall(h, v)

SpecPaint == Init /\ [][NextPaint]_vars

\* the last operation was a draw call of the curve or of the column symbol
DrewAny == call.op \in {"drawSeries", "QwtColumnSymbol::draw"}

\* C17: during a drawSeries or QwtColumnSymbol::draw call the painter's
\* saved-state depth never falls below its value on entry and is back at it
\* on return, and the call sets a pen or a brush only inside a save /
\* restore pair, so the caller's pen and brush are in effect after the call
C17_Balanced ==
    DrewAny
    => /\ \A k \in 0..Len(log) : Depth(log, k) >= 0
       /\ Depth(log, Len(log)) = 0
       /\ \A k \in DOMAIN log :
             log[k].op \in {"setPen", "setBrush"} => Depth(log, k) >= 1

\* a drawSeries call that fills the curve and draws symbols: a save nested
\* in a save, then a second pair, all restored
C17_Witness ==
    /\ call.op = "drawSeries"
    /\ \E k \in DOMAIN log : Depth(log, k) = 2
    /\ Len(Only(log, "save")) = 3
    /\ Depth(log, Len(log)) = 0

====
